---- MODULE Spec2Model ----
(***************************************************************************)
(* InvokeX (src/app_installer.py): the terminal pane and log file, the     *)
(* Restart/Shutdown countdowns driven by Tk timer callbacks, the install   *)
(* / tweak handlers, each a sequence of subprocess calls guarded by exit   *)
(* codes, and the installation status checks behind the status labels.     *)
(*                                                                         *)
(* Every handler leaves a transcript of its effects in `out`: the          *)
(* log_to_terminal calls, the commands started (with their exit code) and  *)
(* the dialogs shown, in program order.                                    *)
(***************************************************************************)
EXTENDS Integers, Sequences, FiniteSets, TLC

VARIABLES
    \* ---- terminal pane and logging (create_terminal_window, setup_logging)
    is_admin,           \* self.is_admin
    terminal,           \* entries of the ScrolledText widget self.terminal
    terminal_state,     \* its -state option: "normal" or "disabled"
    log_file,           \* records written by the FileHandler of setup_logging
    log_calls,          \* history: every (message, level) passed to log_to_terminal
    last_op,            \* history: the handler that ran last
    \* ---- power actions (restart_system_10s, shutdown_system, countdowns)
    countdown_seconds,  \* self.countdown_seconds, NoAttr when the attribute is absent
    countdown_window,   \* self.countdown_window: index into windows, 0 when absent
    windows,            \* the countdown Toplevels created so far
    timers,             \* Tk timer queue: callbacks scheduled by root.after(1000, ...)
    dialog,             \* the askyesno confirmation that is open, "none" otherwise
    issued,             \* history: the `shutdown` commands run
    \* ---- handlers
    clicked,            \* the button command Tk is dispatching, "none" otherwise
    out,                \* transcript of the handler call: log / cmd / dlg events
    \* ---- get_admin_password
    pw_dialog,          \* "none", or the branch of create_admin_account waiting on it
    pw_result,          \* result = {'password': ..., 'cancelled': ...}
    pw_entered,         \* history: the last (password, confirm) submitted
    pw_rejected,        \* history: submissions this dialog has rejected
    \* ---- installation status (check_app_installed and its callers)
    checking,           \* the status callback root.after has due, <<>> otherwise
    env,                \* history: the paths and probe outcomes the last check met
    is_installed,       \* history: what check_app_installed did in the last check
    status_label,       \* the (title, text) of the last status_label.config
    ninite_count,       \* self.ninite_count, NoAttr when the attribute is absent
    ninite_total        \* self.ninite_total, NoAttr when the attribute is absent

logVars   == <<is_admin, terminal, terminal_state, log_file, log_calls, last_op>>
powerVars == <<countdown_seconds, countdown_window, windows, timers, dialog, issued>>
vars      == <<is_admin, terminal, terminal_state, log_file, log_calls, last_op,
               countdown_seconds, countdown_window, windows, timers, dialog,
               issued, clicked, out, pw_dialog, pw_result, pw_entered, pw_rejected,
               checking, env, is_installed, status_label, ninite_count, ninite_total>>
pwVars    == <<pw_dialog, pw_result, pw_entered, pw_rejected>>
statusVars == <<checking, env, is_installed, status_label, ninite_count, ninite_total>>

\* ------------------------------------------------------------------ bounds
MaxLogCalls == 2        \* log_to_terminal / clear_terminal calls after start-up

\* ------------------------------------------------------- transcript events
Log(level, msg) == [log |-> msg, level |-> level]
Cmd(c, rc)      == [cmd |-> c, rc |-> rc]
CmdRaised(c)    == [cmd |-> c, raised |-> TRUE]    \* subprocess.run raised
Dlg(kind, title) == [dlg |-> title, kind |-> kind]

IsLog(e) == "log" \in DOMAIN e
IsCmd(e) == "cmd" \in DOMAIN e
IsDlg(e) == "dlg" \in DOMAIN e
ExitedWith(e, c, rc) == IsCmd(e) /\ e.cmd = c /\ "rc" \in DOMAIN e /\ e.rc = rc

\* ===================================================== terminal and logging

\* The levels callers pass: the five of color_map, and the lowercase
\* spellings most handlers use.
Levels == {"INFO", "ERROR", "WARNING", "SUCCESS", "DEBUG",
           "info", "error", "warning", "success"}
Messages == {"m1", "m2"}

\* str.upper() on a level name.
Upper(level) ==
    CASE level = "info"    -> "INFO"
      [] level = "error"   -> "ERROR"
      [] level = "warning" -> "WARNING"
      [] level = "success" -> "SUCCESS"
      [] OTHER             -> level

\* Numeric values of the logging module's levels.
LevelNo(name) ==
    CASE name = "DEBUG"   -> 10
      [] name = "INFO"    -> 20
      [] name = "WARNING" -> 30
      [] name = "ERROR"   -> 40

\* logging.basicConfig(level=logging.INFO, ...): the level of the root logger.
LoggerLevel == "INFO"

\* logger.<method>(text): the record reaches the FileHandler when the
\* method's level is at least the logger's level.
LoggerEmit(file, method, text) ==
    IF LevelNo(method) >= LevelNo(LoggerLevel)
    THEN Append(file, [levelname |-> method, text |-> text])
    ELSE file

\* Text.insert / Text.delete: ignored while the widget is disabled.
TextInsert(text, state, entry) == IF state = "normal" THEN Append(text, entry) ELSE text
TextDeleteAll(text, state)     == IF state = "normal" THEN <<>> ELSE text

\* The line log_to_terminal inserts: "[ts] [ LEVEL ] message".
Entry(message, level) == [level |-> Upper(level), msg |-> message]

\* detailed_message: "date ts | LEVEL | message" ("SUCCESS | " prefixed for SUCCESS).
Detailed(message, level) ==
    [level |-> Upper(level), msg |-> message, success |-> (level = "SUCCESS")]

\* log_to_terminal(message, level) on t = [terminal, state, file, calls].
\* The try block runs on a live widget: configure(state='normal'), insert,
\* tag the level, configure(state='disabled'); its bare except (insert again)
\* is taken only when a Tk call raises, which a live widget does not.
LogMethod(level) ==
    CASE level = "ERROR"   -> "ERROR"
      [] level = "WARNING" -> "WARNING"
      [] level = "SUCCESS" -> "INFO"
      [] level = "DEBUG"   -> "DEBUG"
      [] OTHER             -> "INFO"

LogToTerminalMut(t, message, level) ==
    [terminal |-> Append(Append(t.terminal, Entry(message, level)), Entry(message, level)),
     state    |-> "disabled",
     file     |-> LoggerEmit(t.file, LogMethod(level), Detailed(message, level)),
     calls    |-> Append(t.calls, <<message, level>>)]
LogToTerminal(t, message, level) ==
    [terminal |-> TextInsert(t.terminal, "normal", Entry(message, level)),
     state    |-> "disabled",
     file     |-> LoggerEmit(t.file, LogMethod(level), Detailed(message, level)),
     calls    |-> Append(t.calls, <<message, level>>)]

\* clear_terminal on t.
ClearTerminal(t) ==
    LogToTerminal([t EXCEPT !.terminal = TextDeleteAll(t.terminal, t.state)],
                  "Terminal cleared.", "INFO")

Tty == [terminal |-> terminal, state |-> terminal_state,
        file |-> log_file, calls |-> log_calls]

SetTty(t) ==
    /\ terminal' = t.terminal
    /\ terminal_state' = t.state
    /\ log_file' = t.file
    /\ log_calls' = t.calls

\* The welcome messages of create_terminal_window on the new widget.
Welcome(admin) ==
    LET t0 == [terminal |-> <<>>, state |-> "normal", file |-> <<>>, calls |-> <<>>]
        t1 == LogToTerminal(t0, "InvokeX started successfully!", "INFO")
        t2 == LogToTerminal(t1, IF admin THEN "Running as: Administrator"
                                         ELSE "Running as: Standard User", "INFO")
        t3 == IF ~admin
              THEN LogToTerminal(t2, "Note: Some operations may require administrator privileges", "WARNING")
              ELSE t2
    IN  LogToTerminal(t3, "Ready to install applications and apply system tweaks.", "INFO")

NWelcome(admin) == IF admin THEN 3 ELSE 4

InitTty ==
    /\ is_admin \in BOOLEAN
    /\ terminal = Welcome(is_admin).terminal
    /\ terminal_state = Welcome(is_admin).state
    /\ log_file = Welcome(is_admin).file
    /\ log_calls = Welcome(is_admin).calls
    /\ last_op = "init"

NoAttr == -1

InitPower ==
    /\ countdown_seconds = NoAttr
    /\ countdown_window = 0
    /\ windows = <<>>
    /\ timers = <<>>
    /\ dialog = "none"
    /\ issued = <<>>

\* result['password'] = None
None == [none |-> TRUE, value |-> <<>>]
Some(v) == [none |-> FALSE, value |-> v]

InitPw ==
    /\ pw_dialog = "none"
    /\ pw_result = [password |-> None, cancelled |-> FALSE]
    /\ pw_entered = <<>>
    /\ pw_rejected = 0

\* No probe has run, no status label has been configured, and __init__ sets
\* neither ninite_count nor ninite_total.
NoEnv == [exists |-> {}, probe |-> <<>>]
NoRet == [raised |-> FALSE, value |-> FALSE]
InitStatus ==
    /\ checking = <<>>
    /\ env = NoEnv
    /\ is_installed = NoRet
    /\ status_label = <<>>
    /\ ninite_count = NoAttr
    /\ ninite_total = NoAttr

Init ==
    /\ InitTty
    /\ InitPower
    /\ InitPw
    /\ InitStatus
    /\ clicked = "none"
    /\ out = <<>>

log_to_terminal(message, level) ==
    /\ Len(log_calls) < NWelcome(is_admin) + MaxLogCalls
    /\ SetTty(LogToTerminal(Tty, message, level))
    /\ last_op' = "log_to_terminal"
    /\ UNCHANGED <<is_admin, out>>
    /\ UNCHANGED powerVars
    /\ UNCHANGED <<pwVars, clicked, statusVars>>

clear_terminal ==
    /\ Len(log_calls) < NWelcome(is_admin) + MaxLogCalls
    /\ SetTty(ClearTerminal(Tty))
    /\ last_op' = "clear_terminal"
    /\ UNCHANGED <<is_admin, out>>
    /\ UNCHANGED powerVars
    /\ UNCHANGED <<pwVars, clicked, statusVars>>

NextLog ==
    \/ \E m \in Messages, l \in Levels : log_to_terminal(m, l)
    \/ clear_terminal

SpecLog == Init /\ [][NextLog]_vars

\* ============================================================ power actions

MaxCountdowns == 2      \* countdowns confirmed in one run

\* self.countdown_seconds = 15 (restart_system_10s, shutdown_system).
CountdownStart == 15

HasSeconds(p) == p.cs # NoAttr

\* countdown_window.winfo_exists() on self.countdown_window.
WinfoExistsMut(p) == TRUE
WinfoExists(p) == p.windows[p.cw].exists

\* The power state as one record, so that a handler can call a callback.
Power == [cs |-> countdown_seconds, cw |-> countdown_window, windows |-> windows,
          timers |-> timers, issued |-> issued, out |-> out]

SetPower(p) ==
    /\ countdown_seconds' = p.cs
    /\ countdown_window' = p.cw
    /\ windows' = p.windows
    /\ timers' = p.timers
    /\ issued' = p.issued
    /\ out' = p.out

\* History: one more invocation of the callback chain started with the
\* window that is open (the chains of earlier windows are not counted).
Counted(p, chain) ==
    IF chain = p.cw /\ p.windows[p.cw].exists
    THEN [p EXCEPT !.windows[chain].calls = @ + 1]
    ELSE p

\* A destroyed Toplevel: its label is gone with it.
Gone(kind) == [kind |-> kind, exists |-> FALSE, label |-> 0, shown |-> <<>>, calls |-> 0]

\* window.destroy() on self.countdown_window.
Destroy(p) == [p EXCEPT !.windows[p.cw] = Gone(@.kind)]

\* self.time_label.config(text=str(self.countdown_seconds)); self.countdown_seconds -= 1
ShowAndDecrement(p) ==
    [p EXCEPT !.windows[p.cw].label = p.cs,
              !.windows[p.cw].shown = Append(@, p.cs),
              !.cs = p.cs - 1]

\* root.after(1000, callback): all delays are equal, so the queue is FIFO.
After(p, cb, chain) ==
    [p EXCEPT !.timers = Append(@, [cb |-> cb, chain |-> chain])]

\* subprocess.run(["shutdown", flag, "/t", "0"]) reached by the callback of
\* `chain`; `call` is the number of that invocation in its chain, `elapsed`
\* the timer periods the countdown of the current window has completed.
Issue(p, flag, chain) ==
    [p EXCEPT !.issued = Append(@, [cmd     |-> flag,
                                    chain   |-> chain,
                                    window  |-> p.cw,
                                    call    |-> p.windows[chain].calls,
                                    shown   |-> p.windows[p.cw].shown,
                                    elapsed |-> IF chain = p.cw
                                                THEN p.windows[p.cw].calls - 1
                                                ELSE p.windows[p.cw].calls])]

Emit(p, e) == [p EXCEPT !.out = Append(@, e)]

\* countdown_restart, invoked in the chain `chain`; `raised` tells whether
\* subprocess.run raises. time_label.config on a destroyed label raises
\* TclError, which ends the callback.
CountdownRestart(p0, chain, raised) ==
    LET p == Counted(p0, chain) IN
    IF HasSeconds(p) /\ p.cs > 0
    THEN IF p.windows[p.cw].exists
         THEN After(ShowAndDecrement(p), "countdown_restart", chain)
         ELSE p
    ELSE IF p.cw # 0 /\ WinfoExists(p)
    THEN LET a == Emit(p, Log("warning", "Countdown complete. Restarting system..."))
             b == Issue(a, "/r", chain)
             c == IF raised
                  THEN Emit(Emit(b, Log("error", "Failed to restart system")),
                            Dlg("showerror", "Restart Failed"))
                  ELSE b
         IN  Destroy(c)
    ELSE p

\* countdown_shutdown, invoked in the chain `chain`.
CountdownShutdown(p0, chain, raised) ==
    LET p == Counted(p0, chain) IN
    IF HasSeconds(p) /\ p.cs > 0
    THEN IF p.windows[p.cw].exists
         THEN LET d == ShowAndDecrement(p) IN
              IF d.cs >= 0
              THEN After(d, "countdown_shutdown", chain)
              ELSE LET b == Destroy(Issue(d, "/s", chain))
                   IN  IF raised
                       THEN Emit(Emit(b, Log("error", "Failed to shutdown system")),
                                 Dlg("showerror", "Shutdown Failed"))
                       ELSE Emit(b, Log("success", "Shutdown command sent successfully."))
         ELSE p
    ELSE p

\* The Toplevel and label built by restart_system_10s / shutdown_system.
NewWindow(kind) ==
    [kind |-> kind, exists |-> TRUE, label |-> CountdownStart, shown |-> <<>>, calls |-> 0]

\* A countdown window holds the grab (grab_set), an askyesno is modal: the
\* buttons of the main window react only when neither is open.
MainWindowResponsive ==
    /\ dialog = "none"
    /\ \A i \in 1..Len(windows) : ~windows[i].exists

\* restart_system_10s up to its askyesno.
restart_system_10s ==
    /\ MainWindowResponsive
    /\ dialog' = "restart"
    /\ out' = <<Log("warning", "Initiating system restart in 15 seconds..."),
                Dlg("askyesno", "Confirm Restart")>>
    /\ last_op' = "restart_system_10s"
    /\ UNCHANGED <<countdown_seconds, countdown_window, windows, timers, issued>>
    /\ UNCHANGED <<is_admin, terminal, terminal_state, log_file, log_calls>>
    /\ UNCHANGED <<pwVars, clicked, statusVars>>

\* shutdown_system up to its askyesno.
shutdown_system ==
    /\ MainWindowResponsive
    /\ dialog' = "shutdown"
    /\ out' = <<Log("warning", "Initiating system shutdown in 15 seconds..."),
                Dlg("askyesno", "Confirm Shutdown")>>
    /\ last_op' = "shutdown_system"
    /\ UNCHANGED <<countdown_seconds, countdown_window, windows, timers, issued>>
    /\ UNCHANGED <<is_admin, terminal, terminal_state, log_file, log_calls>>
    /\ UNCHANGED <<pwVars, clicked, statusVars>>

\* The user answers No: the handler logs and returns.
ConfirmNo ==
    /\ dialog # "none"
    /\ dialog' = "none"
    /\ out' = Append(out, Log("info", IF dialog = "restart"
                                      THEN "System restart cancelled by user."
                                      ELSE "System shutdown cancelled by user."))
    /\ last_op' = "confirm_no"
    /\ UNCHANGED <<countdown_seconds, countdown_window, windows, timers, issued>>
    /\ UNCHANGED <<is_admin, terminal, terminal_state, log_file, log_calls>>
    /\ UNCHANGED <<pwVars, clicked, statusVars>>

\* The user answers Yes: the rest of restart_system_10s / shutdown_system,
\* which ends with the first, synchronous call of the countdown callback.
ConfirmYes ==
    /\ dialog # "none"
    /\ Len(windows) < MaxCountdowns
    /\ LET kind  == dialog
           chain == Len(windows) + 1
           p     == [Power EXCEPT !.windows = Append(@, NewWindow(kind)),
                                  !.cs = CountdownStart,
                                  !.cw = chain]
       IN  SetPower(IF kind = "restart"
                    THEN CountdownRestart(p, chain, FALSE)
                    ELSE CountdownShutdown(p, chain, FALSE))
    /\ dialog' = "none"
    /\ last_op' = "confirm_yes"
    /\ UNCHANGED <<is_admin, terminal, terminal_state, log_file, log_calls>>
    /\ UNCHANGED <<pwVars, clicked, statusVars>>

\* cancel_restart(window) / cancel_shutdown(window): the Cancel button of
\* the countdown window that is open.
cancel_countdown ==
    /\ countdown_window # 0
    /\ windows[countdown_window].exists
    /\ countdown_seconds' = NoAttr
    /\ windows' = [windows EXCEPT ![countdown_window] = Gone(@.kind)]
    /\ out' = <<Log("info", IF windows[countdown_window].kind = "restart"
                            THEN "System restart cancelled by user."
                            ELSE "System shutdown cancelled by user.")>>
    /\ last_op' = "cancel"
    /\ UNCHANGED <<countdown_window, timers, dialog, issued>>
    /\ UNCHANGED <<is_admin, terminal, terminal_state, log_file, log_calls>>
    /\ UNCHANGED <<pwVars, clicked, statusVars>>

\* The user closes the countdown window: Tk destroys it, no handler runs.
close_countdown_window ==
    /\ countdown_window # 0
    /\ windows[countdown_window].exists
    /\ windows' = [windows EXCEPT ![countdown_window] = Gone(@.kind)]
    /\ out' = <<>>
    /\ last_op' = "close"
    /\ UNCHANGED <<countdown_seconds, countdown_window, timers, dialog, issued>>
    /\ UNCHANGED <<is_admin, terminal, terminal_state, log_file, log_calls>>
    /\ UNCHANGED <<pwVars, clicked, statusVars>>

\* The timer at the head of the queue fires.
timer_fires(raised) ==
    /\ timers # <<>>
    /\ LET t == Head(timers)
           p == [Power EXCEPT !.timers = Tail(@), !.out = <<>>]
       IN  SetPower(IF t.cb = "countdown_restart"
                    THEN CountdownRestart(p, t.chain, raised)
                    ELSE CountdownShutdown(p, t.chain, raised))
    /\ last_op' = Head(timers).cb
    /\ UNCHANGED dialog
    /\ UNCHANGED <<is_admin, terminal, terminal_state, log_file, log_calls>>
    /\ UNCHANGED <<pwVars, clicked, statusVars>>

NextPower ==
    \/ restart_system_10s
    \/ shutdown_system
    \/ ConfirmNo
    \/ ConfirmYes
    \/ cancel_countdown
    \/ close_countdown_window
    \/ \E raised \in BOOLEAN : timer_fires(raised)

SpecPower == Init /\ [][NextPower]_vars

HasIssued(flag) == \E i \in 1..Len(issued) : issued[i].cmd = flag

\* The label texts of a full countdown: 15, 14, ..., 1.
FullCountdown == [i \in 1..CountdownStart |-> CountdownStart + 1 - i]

\* C1: once the shutdown dialog is confirmed and the countdown is neither
\* cancelled nor closed, the chain of countdown_shutdown callbacks issues
\* `shutdown /s /t 0`: when the countdown window is still open and no
\* callback is pending any more, the command has been issued.
C1_ShutdownIssuedWhenCountdownOver ==
    ( /\ countdown_window # 0
      /\ windows[countdown_window].kind = "shutdown"
      /\ windows[countdown_window].exists
      /\ dialog = "none"
      /\ timers = <<>> )
    => HasIssued("/s")

\* C2: a confirmed restart issues `shutdown /r /t 0` exactly once, in the
\* 16th invocation of its own countdown_restart chain, after 15 timer
\* periods with the label having shown 15 down to 1, never earlier, and the
\* countdown window is destroyed afterwards.
C2_RestartOnSixteenthCall ==
    \A i \in 1..Len(issued) :
        issued[i].cmd = "/r" =>
            /\ issued[i].chain = issued[i].window
            /\ issued[i].call = CountdownStart + 1
            /\ issued[i].elapsed = CountdownStart
            /\ issued[i].shown = FullCountdown
            /\ ~windows[issued[i].window].exists
            /\ \A j \in 1..Len(issued) :
                   (issued[j].cmd = "/r" /\ issued[j].window = issued[i].window) => j = i

\* C3: once the countdown window is destroyed (Cancel button or closed), no
\* step issues a `shutdown` command or adds a timer callback, as long as no
\* new countdown is started.
C3_CancelledCountdownIssuesNothing ==
    [][ ( /\ countdown_window # 0
          /\ ~windows[countdown_window].exists
          /\ Len(windows') = Len(windows) )
        => ( /\ issued' = issued
             /\ \/ timers' = timers
                \/ timers # <<>> /\ timers' = Tail(timers) ) ]_vars

\* The pending callback of a cancelled countdown has fired and nothing is
\* scheduled any more.
C3_Witness ==
    /\ last_op \in {"countdown_restart", "countdown_shutdown"}
    /\ countdown_window # 0
    /\ ~windows[countdown_window].exists
    /\ countdown_seconds = NoAttr
    /\ timers = <<>>
    /\ issued = <<>>

\* The record a call leaves in the log file.
FileRecord(c) ==
    [levelname |-> CASE c[2] = "ERROR"   -> "ERROR"
                     [] c[2] = "WARNING" -> "WARNING"
                     [] c[2] = "DEBUG"   -> "DEBUG"
                     [] OTHER            -> "INFO",
     text |-> Detailed(c[1], c[2])]

LastCall == log_calls'[Len(log_calls')]

\* C5 (as stated): every call of log_to_terminal, at each of the levels INFO,
\* ERROR, WARNING, SUCCESS and DEBUG, appends its message once to the
\* terminal pane and emits it once to the log file.
C5_EveryLevelReachesFile ==
    [][ Len(log_calls') = Len(log_calls) + 1 =>
          /\ terminal' = Append(terminal, Entry(LastCall[1], LastCall[2]))
          /\ log_file' = Append(log_file, FileRecord(LastCall)) ]_vars

\* C5 (amended): every call of log_to_terminal appends its message exactly
\* once to the terminal pane; it emits it exactly once to the log file
\* unless the level is exactly "DEBUG", and then the log file is unchanged
\* (logger.debug is below the INFO level set by setup_logging).
C5_LoggedOnceExceptDebug ==
    [][ Len(log_calls') = Len(log_calls) + 1 =>
          /\ terminal' = Append(terminal, Entry(LastCall[1], LastCall[2]))
          /\ log_file' = IF LastCall[2] = "DEBUG"
                         THEN log_file
                         ELSE Append(log_file, FileRecord(LastCall)) ]_vars

\* A DEBUG call and a lowercase-level call have both been made.
C5_Witness ==
    /\ last_op = "log_to_terminal"
    /\ \E i \in 1..Len(log_calls) : log_calls[i][2] = "DEBUG"
    /\ \E i \in 1..Len(log_calls) : log_calls[i][2] = "error"
    /\ Len(terminal) = Len(log_calls)
    /\ Len(log_file) = Len(log_calls) - 1

\* C6: after clear_terminal returns the terminal pane holds exactly one
\* entry, the 'Terminal cleared.' line.
C6_ClearLeavesOneEntry ==
    last_op = "clear_terminal" =>
        terminal = <<Entry("Terminal cleared.", "INFO")>>

\* ================================================================ handlers
\* A handler body is run on s = [ev, n, raised]: the transcript so far, its
\* success_count, and whether an exception is propagating (statements are
\* skipped until an except clause catches it).

Outcomes == {"ok", "fail", "raise"}     \* exit code 0, non-zero, or subprocess.run raises

S0 == [ev |-> <<>>, n |-> 0, raised |-> FALSE]

Say(s, level, msg) ==
    IF s.raised THEN s ELSE [s EXCEPT !.ev = Append(@, Log(level, msg))]

Show(s, kind, title) ==
    IF s.raised THEN s ELSE [s EXCEPT !.ev = Append(@, Dlg(kind, title))]

\* subprocess.run(c, ...) with outcome r.
Run(s, c, r) ==
    IF s.raised THEN s
    ELSE IF r = "raise"
         THEN [s EXCEPT !.ev = Append(@, CmdRaised(c)), !.raised = TRUE]
         ELSE [s EXCEPT !.ev = Append(@, Cmd(c, IF r = "ok" THEN 0 ELSE 1))]

\* success_count += 1
Count(s) == IF s.raised THEN s ELSE [s EXCEPT !.n = @ + 1]

\* except Exception as e: log_to_terminal(msg, level)
Except(s, level, msg) ==
    IF s.raised THEN Say([s EXCEPT !.raised = FALSE], level, msg) ELSE s

\* except Exception as e: log_to_terminal(msg, "error"); messagebox.showerror(title, ...)
ExceptShow(s, msg, title) ==
    IF s.raised
    THEN Show(Say([s EXCEPT !.raised = FALSE], "error", msg), "showerror", title)
    ELSE s

\* The commands of a transcript.
Cmds(ev) == SelectSeq(ev, IsCmd)

NotAdminWarning == Dlg("showwarning", "Administrator Required")

\* ---------------------------------------------------- prevent_user_creation
PreventUserCreation(admin, r) ==
    LET s1 == Say(S0, "info", "Preventing user account creation...") IN
    IF ~admin
    THEN Show(s1, "showwarning", "Administrator Required").ev
    ELSE LET s2 == Run(s1, "reg add NoNewUsers", r[1])
             s3 == IF r[1] = "ok"
                   THEN Show(Say(s2, "success", "User account creation prevention enabled"),
                             "showinfo", "Success")
                   ELSE Show(Say(s2, "error", "Failed to prevent user creation"),
                             "showerror", "Failed")
         IN  ExceptShow(s3, "Error preventing user creation", "Error").ev

\* ---------------------------------------------------- restore_user_creation
RestoreUserCreation(admin, r) ==
    LET s1 == Say(S0, "info", "Restoring user account creation...") IN
    IF ~admin
    THEN Show(s1, "showwarning", "Administrator Required").ev
    ELSE LET s2 == Run(s1, "reg delete NoNewUsers", r[1])
             s3 == Show(Say(s2, "success", "User account creation restored"),
                        "showinfo", "Success")
         IN  ExceptShow(s3, "Error restoring user creation", "Error").ev

\* ----------------------------------------------------- open_user_management
\* subprocess.Popen(['mmc', 'lusrmgr.msc']): started, or raises.
OpenUserManagement(admin, r) ==
    LET s1 == Say(S0, "info", "Opening User Management console...") IN
    IF ~admin
    THEN Show(s1, "showwarning", "Administrator Required").ev
    ELSE LET s2 == Show(s1, "showinfo", "Opening User Management")
             s3 == Run(s2, "mmc lusrmgr.msc", r[1])
             s4 == Say(s3, "success", "User Management console opened successfully")
         IN  ExceptShow(s4, "Error opening User Management", "Error").ev

\* --------------------------------------------------- disable_remote_desktop
DisableRemoteDesktopMut(admin, r) ==
    LET s1 == Say(S0, "info", "Disabling Remote Desktop...")
        s2 == Run(s1, "reg add fDenyTSConnections 1", r[1])
        s3 == Run(s2, "netsh firewall Remote Desktop enable=no", r[2])
        s4 == Show(Say(s3, "success", "Remote Desktop disabled"), "showinfo", "Success")
    IN  ExceptShow(s4, "Error disabling Remote Desktop", "Error").ev
DisableRemoteDesktop(admin, r) ==
    LET s1 == Say(S0, "info", "Disabling Remote Desktop...") IN
    IF ~admin
    THEN Show(s1, "showwarning", "Administrator Required").ev
    ELSE LET s2 == Run(s1, "reg add fDenyTSConnections 1", r[1])
             s3 == Run(s2, "netsh firewall Remote Desktop enable=no", r[2])
             s4 == Show(Say(s3, "success", "Remote Desktop disabled"), "showinfo", "Success")
         IN  ExceptShow(s4, "Error disabling Remote Desktop", "Error").ev

\* ---------------------------------------------------- enable_remote_desktop
\* if result.returncode == 0: success_count += 1; log_to_terminal(msg, "success")
CountIfOk(s, r, msg) == IF r = "ok" THEN Say(Count(s), "success", msg) ELSE s

EnableRemoteDesktop(admin, r) ==
    LET s1 == Say(S0, "info", "Enabling Remote Desktop...") IN
    IF ~admin
    THEN Show(s1, "showwarning", "Administrator Required").ev
    ELSE LET a  == CountIfOk(Run(s1, "reg add fDenyTSConnections 0", r[1]), r[1],
                             "Remote Desktop enabled")
             b  == CountIfOk(Run(a, "netsh firewall Remote Desktop enable=yes", r[2]), r[2],
                             "Firewall rule enabled")
             c  == CountIfOk(Run(b, "reg add UserAuthentication 0", r[3]), r[3],
                             "Network Level Authentication disabled")
             d  == Run(c, "powercfg STANDBYIDLE 0", r[4])
             e  == IF r[4] = "ok"
                   THEN CountIfOk(Run(d, "powercfg /setactive SCHEME_CURRENT", r[5]), r[5],
                                  "PC will stay awake for RDP connections when plugged in")
                   ELSE d
             f  == Run(e, "powercfg CONNECTEDIDLE 0", r[6])
             g  == IF r[6] = "ok"
                   THEN Say(Run(f, "powercfg /setactive SCHEME_CURRENT", r[7]), "success",
                            "Connected standby disabled when plugged in")
                   ELSE f
             h  == IF g.n >= 3
                   THEN Show(g, "showinfo", "Success")
                   ELSE Show(g, "showwarning", "Partial Success")
         IN  ExceptShow(h, "Error enabling Remote Desktop", "Error").ev

\* --------------------------------------------------- reset_power_management
ResetCommands ==
    <<"powercfg /change standby-timeout-ac 15", "powercfg /change standby-timeout-dc 15",
      "powercfg /change hibernate-timeout-ac 0", "powercfg /change hibernate-timeout-dc 180",
      "powercfg /change monitor-timeout-ac 10", "powercfg /change monitor-timeout-dc 10">>

\* One iteration of the for loop over reset_commands.
ResetStep(s, i, r) ==
    LET a == Run(Say(s, "info", "Executing reset command"), ResetCommands[i], r)
        b == IF r = "ok"
             THEN Say(Count(a), "success", "Reset command executed successfully.")
             ELSE Say(a, "warning", "Reset command failed")
    IN  Except(b, "warning", "Reset command error")

RECURSIVE ResetLoop(_, _, _)
ResetLoop(s, i, r) ==
    IF i > Len(ResetCommands) THEN s ELSE ResetLoop(ResetStep(s, i, r[i]), i + 1, r)

ResetPowerManagement(admin, r) ==
    LET s1 == Say(S0, "info", "Resetting power management settings to defaults...") IN
    IF ~admin
    THEN Show(s1, "showwarning", "Administrator Required").ev
    ELSE LET s2 == ResetLoop(s1, 1, r)
             \* success_count >= len(reset_commands) * 0.7
             s3 == IF 10 * s2.n >= 7 * Len(ResetCommands)
                   THEN Show(Say(s2, "success", "Power management settings reset to defaults successfully!"),
                             "showinfo", "Success")
                   ELSE Show(Say(s2, "warning", "Some power reset commands failed."),
                             "showwarning", "Partial Success")
         IN  s3.ev

\* --------------------------------------- remove_shutdown_from_startup_smart
\* The registry values of the six methods, in program order.
PolicyValues ==
    <<"HKCU Explorer NoClose", "HKCU Explorer NoShutdown", "HKLM Explorer NoShutdown",
      "HKLM System DisableShutdown", "HKCU Explorer NoLogoff", "HKLM Explorer NoPowerOptions">>

TotalMethods == Len(PolicyValues)

\* Method i of remove_shutdown_from_startup_smart: its own try / except.
HideStepMut(s, i, r) ==
    LET a == Run(s, "reg add " \o PolicyValues[i], r)
    IN  IF r = "ok"
        THEN Count(Say(a, "success", "Successfully set policy"))
        ELSE Say(a, "warning", "policy failed")
HideStep(s, i, r) ==
    LET a == Run(s, "reg add " \o PolicyValues[i], r)
        b == IF r = "ok"
             THEN Count(Say(a, "success", "Successfully set policy"))
             ELSE Say(a, "warning", "policy failed")
    IN  Except(b, "warning", "Could not set policy")

RECURSIVE HideLoop(_, _, _)
HideLoop(s, i, r) ==
    IF i > TotalMethods THEN s ELSE HideLoop(HideStep(s, i, r[i]), i + 1, r)

\* "Force Group Policy update and restart Explorer": one try around three
\* commands whose exit codes are not read; r[7..9] are their outcomes.
UpdatePolicy(s, r) ==
    LET a == Run(Say(s, "info", "Updating Group Policy..."), "gpupdate /force", r[TotalMethods + 1])
        b == Say(Say(a, "success", "Group Policy updated"), "info",
                 "Restarting Explorer to apply changes...")
        c == Run(b, "taskkill /f /im explorer.exe", r[TotalMethods + 2])
        d == Run(c, "start explorer.exe", r[TotalMethods + 3])
        e == Say(d, "success", "Explorer restarted")
    IN  Except(e, "info", "Group Policy update completed")

RemoveShutdownFromStartupSmart(admin, r) ==
    LET s1 == Say(S0, "info", "Attempting to hide shutdown options using Group Policy...") IN
    IF ~admin
    THEN Show(Say(s1, "warning", "This operation requires administrator privileges."),
              "showwarning", "Administrator Required").ev
    ELSE LET s2 == UpdatePolicy(HideLoop(s1, 1, r), r)
             s3 == IF s2.n >= 3
                   THEN Show(Say(s2, "success", "Shutdown functionality disabled successfully!"),
                             "showinfo", "Success")
                   ELSE Show(Say(s2, "warning", "Failed to disable shutdown functionality with GPO"),
                             "showwarning", "Failed")
         IN  s3.ev

\* ------------------------------------------------- restore_shutdown_options
\* Method i of restore_shutdown_options: a non-zero exit code is logged as
\* "not found (already removed)" and counted.
\* `reg delete` exits with 1 whatever went wrong; only its stderr, which is
\* captured and never read, tells a value that was not there ("absent") from
\* one that could not be deleted ("denied").
RegDeleteOutcomes == {"ok", "absent", "denied", "raise"}
RunRegDelete(s, c, r) ==
    IF s.raised \/ r \in {"ok", "raise"} THEN Run(s, c, r)
    ELSE [s EXCEPT !.ev = Append(@, [cmd |-> c, rc |-> 1, stderr |-> r])]

RestoreStep(s, i, r) ==
    LET a == RunRegDelete(s, "reg delete " \o PolicyValues[i], r)
        b == IF r = "ok"
             THEN Count(Say(a, "success", "Successfully removed policy"))
             ELSE Count(Say(a, "info", "policy not found (already removed)"))
    IN  Except(b, "warning", "Could not remove policy")

RECURSIVE RestoreLoop(_, _, _)
RestoreLoop(s, i, r) ==
    IF i > TotalMethods THEN s ELSE RestoreLoop(RestoreStep(s, i, r[i]), i + 1, r)

RestoreShutdownOptions(admin, r) ==
    LET s1 == Say(S0, "info", "Attempting to restore shutdown functionality...") IN
    IF ~admin
    THEN Say(Say(s1, "warning", "This operation requires administrator privileges."),
             "warning", "Please restart the application as administrator.").ev
    ELSE LET s2 == UpdatePolicy(RestoreLoop(s1, 1, r), r)
             s3 == IF s2.n >= 3
                   THEN Show(Say(s2, "success", "Shutdown functionality restored successfully!"),
                             "showinfo", "Success")
                   ELSE Show(Say(s2, "warning", "Failed to restore shutdown functionality"),
                             "showwarning", "Failed")
         IN  s3.ev

\* ----------------------------------------------- configure_power_management
\* Methods 1..6 run two powercfg commands (AC, then battery) in one try and
\* count when both exit with 0.
PowerPairs ==
    <<<<"powercfg /change standby-timeout-ac 0", "powercfg /change standby-timeout-dc 0">>,
      <<"powercfg /change hibernate-timeout-ac 0", "powercfg /change hibernate-timeout-dc 0">>,
      <<"powercfg /change monitor-timeout-ac 0", "powercfg /change monitor-timeout-dc 0">>,
      <<"powercfg /setacvalueindex PBUTTONACTION 0", "powercfg /setdcvalueindex PBUTTONACTION 0">>,
      <<"powercfg /setacvalueindex SBUTTONACTION 0", "powercfg /setdcvalueindex SBUTTONACTION 0">>,
      <<"powercfg /setacvalueindex LIDACTION 0", "powercfg /setdcvalueindex LIDACTION 0">>>>

\* r is the outcome of the AC command; the battery command exits with 0.
PairStep(s, i, r) ==
    LET a == Say(s, "info", "Configuring ...")
        b == Run(Run(a, PowerPairs[i][1], r), PowerPairs[i][2], "ok")
        c == IF r = "ok"
             THEN Say(Count(b), "success", "configured successfully")
             ELSE Say(b, "warning", "configuration had issues")
    IN  Except(c, "error", "configuration failed")

RECURSIVE PairLoop(_, _, _)
PairLoop(s, i, r) ==
    IF i > Len(PowerPairs) THEN s ELSE PairLoop(PairStep(s, i, r[i]), i + 1, r)

\* Method 7: powercfg /setactive SCHEME_CURRENT.
ApplyScheme(s, r) ==
    LET a == Run(Say(s, "info", "Applying current power scheme to activate changes..."),
                 "powercfg /setactive SCHEME_CURRENT", r)
        b == IF r = "ok"
             THEN Say(Count(a), "success", "Current power scheme applied successfully")
             ELSE Say(a, "warning", "Power scheme application had issues")
    IN  Except(b, "error", "Power scheme application failed")

\* Method 8: read the active scheme, parse its GUID, set it active again.
ReapplyScheme(s, rGet, parsed, rSet) ==
    LET a == Run(Say(s, "info", "Applying power scheme changes..."),
                 "powercfg /getactivescheme", rGet)
        b == IF rGet # "ok"
             THEN Say(a, "warning", "Could not get current power scheme")
             ELSE IF ~parsed
             THEN Say(a, "warning", "Could not parse current power scheme")
             ELSE LET c == Run(a, "powercfg /setactive <guid>", rSet)
                  IN  IF rSet = "ok"
                      THEN Say(Count(c), "success", "Power scheme changes applied successfully")
                      ELSE Say(c, "warning", "Power scheme application had issues")
    IN  Except(b, "error", "Power scheme application failed")

\* r[1..6]: methods 1..6, r[7]: method 7, r[8], r[9]: the commands of method 8.
ConfigurePowerManagement(admin, r, parsed) ==
    LET s1 == Say(S0, "info", "=== Starting comprehensive power management configuration ===") IN
    IF ~admin
    THEN Show(Say(s1, "error", "Administrator privileges required for power management changes"),
              "showwarning", "Administrator Required").ev
    ELSE LET s2 == Say(s1, "success", "Administrator privileges confirmed")
             s3 == ReapplyScheme(ApplyScheme(PairLoop(s2, 1, r), r[7]), r[8], parsed, r[9])
             s4 == Say(s3, "info", "=== Power management configuration completed ===")
             s5 == IF s4.n >= 6
                   THEN Show(Say(s4, "success", "Power management configured successfully!"),
                             "showinfo", "Power Management Configured")
                   ELSE Show(Say(s4, "warning", "Power management partially configured"),
                             "showwarning", "Partial Configuration")
         IN  s5.ev

\* ------------------------------------- create_admin_account, get_admin_password
MaxPwLen == 4           \* longest password typed into the dialog
MaxRejected == 1        \* rejected submissions per dialog
PwChars == {"a", "b"}
\* What the user types into an entry: a run of one character.
Passwords == {[i \in 1..n |-> c] : c \in PwChars, n \in 0..MaxPwLen}

\* len(password) < 4 is rejected.
MinPasswordLen == 4

\* validate_and_set_password: the check that rejects, or "ok".
ValidatePasswordMut(password, confirm) ==
    IF password = <<>> THEN "Password cannot be empty!"
    ELSE IF password # confirm THEN "Passwords do not match!"
    ELSE "ok"
ValidatePassword(password, confirm) ==
    IF password = <<>> THEN "Password cannot be empty!"
    ELSE IF Len(password) < MinPasswordLen THEN "Password must be at least 4 characters long!"
    ELSE IF password # confirm THEN "Passwords do not match!"
    ELSE "ok"

\* `not password` on the value get_admin_password returned.
Falsy(ret) == ret.none \/ ret.value = <<>>

NetUserCheck  == "net user Admin"
NetUserAdd    == "net user Admin <password> /add"
NetUserReset  == "net user Admin <password>"
AddToAdmins   == "net localgroup Administrators Admin /add"
AddToRdpUsers == "net localgroup \"Remote Desktop Users\" Admin /add"

\* create_admin_account up to the call of get_admin_password: the
\* transcript, and the branch that waits for the password ("none" when the
\* handler has returned).
CreateAdminBegin(admin, rCheck, overwrite) ==
    LET s1 == Say(S0, "info", "Creating Admin account...") IN
    IF ~admin
    THEN [ev |-> Show(s1, "showwarning", "Administrator Required").ev, wait |-> "none"]
    ELSE LET s2 == Run(Say(s1, "info", "Checking if Admin account already exists..."),
                       NetUserCheck, rCheck)
         IN  IF rCheck = "raise"
             THEN [ev |-> ExceptShow(s2, "Error creating Admin account", "Error").ev,
                   wait |-> "none"]
             ELSE IF rCheck = "ok"
             THEN LET s3 == Show(Say(s2, "warning", "Admin account already exists!"),
                                 "askyesno", "Admin Account Already Exists")
                  IN  IF ~overwrite
                      THEN [ev |-> Say(s3, "info", "Admin account creation cancelled by user").ev,
                            wait |-> "none"]
                      ELSE [ev |-> s3.ev, wait |-> "reset"]
             ELSE [ev |-> Say(s2, "info", "Admin account does not exist, proceeding with creation...").ev,
                   wait |-> "create"]

\* The password-reset branch after get_admin_password returned `ret`.
ResetBranch(ev, ret, r) ==
    LET s0 == [S0 EXCEPT !.ev = ev] IN
    IF Falsy(ret)
    THEN Say(s0, "info", "Admin account password reset cancelled - no password provided").ev
    ELSE LET s1 == Run(Say(s0, "info", "Resetting password for existing Admin account..."),
                       NetUserReset, r[1])
             s2 == IF r[1] = "ok"
                   THEN LET a == Say(s1, "success", "Admin account password reset successfully")
                            b == Run(Run(a, AddToAdmins, r[2]), AddToRdpUsers, r[3])
                        IN  Show(b, "showinfo", "Success")
                   ELSE Show(Say(s1, "error", "Failed to reset Admin account password"),
                             "showerror", "Failed")
         IN  ExceptShow(s2, "Error creating Admin account", "Error").ev

\* The creation branch after get_admin_password returned `ret`; `exists`
\* tells whether stderr of `net user ... /add` says "already exists".
CreateBranch(ev, ret, r, exists) ==
    LET s0 == [S0 EXCEPT !.ev = ev] IN
    IF Falsy(ret)
    THEN Say(s0, "info", "Admin account creation cancelled - no password provided").ev
    ELSE LET s1 == Run(s0, NetUserAdd, r[1])
             s2 == IF r[1] = "ok"
                   THEN LET a == Say(s1, "success", "Admin account created")
                            b == Run(Run(a, AddToAdmins, r[2]), AddToRdpUsers, r[3])
                            c == Say(b, "success", "Admin account configured with privileges")
                        IN  Show(c, "showinfo", "Success")
                   ELSE IF exists
                   THEN Show(s1, "showinfo", "Account Exists")
                   ELSE Show(Say(s1, "error", "Failed to create Admin account"),
                             "showerror", "Failed")
         IN  ExceptShow(s2, "Error creating Admin account", "Error").ev

\* create_admin_account from the return of get_admin_password on.
CreateAdminResume(branch, ev, ret, r, exists) ==
    IF branch = "reset" THEN ResetBranch(ev, ret, r) ELSE CreateBranch(ev, ret, r, exists)

\* ---------------------------------------------------------------- actions
unchangedByHandler ==
    /\ UNCHANGED <<is_admin, terminal, terminal_state, log_file, log_calls>>
    /\ UNCHANGED powerVars
    /\ UNCHANGED statusVars

\* The buttons of the Tweaks tab (create_tweaks_tab): command=lambda: self.<handler>().
TweakButtons ==
    {"remove_shutdown_from_startup_smart", "restore_shutdown_options",
     "configure_power_management", "reset_power_management",
     "prevent_user_creation", "restore_user_creation",
     "create_admin_account", "open_user_management",
     "enable_remote_desktop", "disable_remote_desktop"}

\* The user clicks a button of the main window and Tk invokes its command;
\* a modal dialog (here the password dialog, grab_set) blocks the click.
Click(name) ==
    /\ clicked = "none"
    /\ pw_dialog = "none"
    /\ clicked' = name
    /\ out' = <<>>
    /\ last_op' = "click"
    /\ pw_result' = [password |-> None, cancelled |-> FALSE]
    /\ pw_entered' = <<>>
    /\ pw_rejected' = 0
    /\ UNCHANGED pw_dialog
    /\ unchangedByHandler

\* A handler that runs to completion.
Handler(name, transcript) ==
    /\ clicked' = "none"
    /\ out' = transcript
    /\ last_op' = name
    /\ unchangedByHandler
    /\ UNCHANGED pwVars

remove_shutdown_from_startup_smart ==
    /\ clicked = "remove_shutdown_from_startup_smart"
    /\ \E r \in [1..TotalMethods + 3 -> Outcomes] :
        /\ \A i \in TotalMethods + 1..TotalMethods + 3 : r[i] # "fail"
        /\ Handler("remove_shutdown_from_startup_smart", RemoveShutdownFromStartupSmart(is_admin, r))

restore_shutdown_options ==
    /\ clicked = "restore_shutdown_options"
    /\ \E r \in [1..TotalMethods -> RegDeleteOutcomes],
          u \in [TotalMethods + 1..TotalMethods + 3 -> {"ok", "raise"}] :
        Handler("restore_shutdown_options", RestoreShutdownOptions(is_admin, r @@ u))

configure_power_management ==
    /\ clicked = "configure_power_management"
    /\ \E r \in [1..9 -> Outcomes], parsed \in BOOLEAN :
        Handler("configure_power_management", ConfigurePowerManagement(is_admin, r, parsed))

reset_power_management ==
    /\ clicked = "reset_power_management"
    /\ \E r \in [1..Len(ResetCommands) -> Outcomes] :
        Handler("reset_power_management", ResetPowerManagement(is_admin, r))

prevent_user_creation ==
    /\ clicked = "prevent_user_creation"
    /\ \E r \in [1..1 -> Outcomes] :
        Handler("prevent_user_creation", PreventUserCreation(is_admin, r))

restore_user_creation ==
    /\ clicked = "restore_user_creation"
    /\ \E r \in [1..1 -> Outcomes] :
        Handler("restore_user_creation", RestoreUserCreation(is_admin, r))

open_user_management ==
    /\ clicked = "open_user_management"
    /\ \E r \in [1..1 -> {"ok", "raise"}] :
        Handler("open_user_management", OpenUserManagement(is_admin, r))

enable_remote_desktop ==
    /\ clicked = "enable_remote_desktop"
    /\ \E r \in [1..7 -> Outcomes] :
        Handler("enable_remote_desktop", EnableRemoteDesktop(is_admin, r))

disable_remote_desktop ==
    /\ clicked = "disable_remote_desktop"
    /\ \E r \in [1..2 -> Outcomes] :
        Handler("disable_remote_desktop", DisableRemoteDesktop(is_admin, r))

\* create_admin_account until it returns or waits in get_admin_password
\* (wait_window on the modal password dialog).
create_admin_account ==
    /\ clicked = "create_admin_account"
    /\ clicked' = "none"
    /\ \E rCheck \in Outcomes, overwrite \in BOOLEAN :
         LET b == CreateAdminBegin(is_admin, rCheck, overwrite) IN
         /\ out' = b.ev
         /\ pw_dialog' = b.wait
    /\ pw_result' = [password |-> None, cancelled |-> FALSE]
    /\ pw_entered' = <<>>
    /\ pw_rejected' = 0
    /\ last_op' = "create_admin_account"
    /\ unchangedByHandler

\* The dialog is destroyed: get_admin_password returns result['password']
\* and create_admin_account runs to its end.
DialogReturns(result) ==
    /\ pw_result' = result
    /\ pw_dialog' = "none"
    /\ \E r \in [1..3 -> Outcomes], exists \in BOOLEAN :
         out' = CreateAdminResume(pw_dialog, out, result.password, r, exists)

\* "Create Account" button (or Return) with the two entries filled in.
validate_and_set_password(password, confirm) ==
    /\ pw_dialog # "none"
    /\ pw_entered' = <<password, confirm>>
    /\ IF ValidatePassword(password, confirm) = "ok"
       THEN /\ DialogReturns([pw_result EXCEPT !.password = Some(password)])
            /\ UNCHANGED pw_rejected
       ELSE /\ pw_rejected < MaxRejected
            /\ out' = Append(out, Dlg("showerror", ValidatePassword(password, confirm)))
            /\ pw_rejected' = pw_rejected + 1
            /\ UNCHANGED <<pw_dialog, pw_result>>
    /\ last_op' = "validate_and_set_password"
    /\ UNCHANGED clicked
    /\ unchangedByHandler

\* "Cancel" button.
cancel_dialog ==
    /\ pw_dialog # "none"
    /\ DialogReturns([pw_result EXCEPT !.cancelled = TRUE])
    /\ last_op' = "cancel_dialog"
    /\ UNCHANGED <<pw_entered, pw_rejected, clicked>>
    /\ unchangedByHandler

\* The user closes the password dialog: Tk destroys it, no handler runs.
close_password_dialog ==
    /\ pw_dialog # "none"
    /\ DialogReturns(pw_result)
    /\ last_op' = "close_password_dialog"
    /\ UNCHANGED <<pw_entered, pw_rejected, clicked>>
    /\ unchangedByHandler

NextTweaks ==
    \/ \E name \in TweakButtons : Click(name)
    \/ remove_shutdown_from_startup_smart
    \/ restore_shutdown_options
    \/ configure_power_management
    \/ reset_power_management
    \/ prevent_user_creation
    \/ restore_user_creation
    \/ open_user_management
    \/ enable_remote_desktop
    \/ disable_remote_desktop
    \/ create_admin_account
    \/ \E password \in Passwords, confirm \in Passwords :
           validate_and_set_password(password, confirm)
    \/ cancel_dialog
    \/ close_password_dialog

SpecTweaks == Init /\ [][NextTweaks]_vars

\* ------------------------------------------------ properties of the tweaks

\* C4: without administrator rights none of the ten gated handlers starts a
\* subprocess: the transcript of the call holds no command (neither one that
\* exited nor one that raised), and create_admin_account does not open the
\* password dialog.
C4_NoCommandWithoutAdmin ==
    (~is_admin /\ last_op \in TweakButtons) =>
        /\ Cmds(out) = <<>>
        /\ pw_dialog = "none"

C4_Witness ==
    /\ ~is_admin
    /\ last_op = "disable_remote_desktop"
    /\ out # <<>> /\ out[Len(out)] = NotAdminWarning

\* The transcript reports the success of create_admin_account.
ReportsSuccess ==
    /\ last_op = "validate_and_set_password"
    /\ pw_dialog = "none"
    /\ \E i \in 1..Len(out) : out[i] = Dlg("showinfo", "Success")

\* C8: whenever create_admin_account shows its success dialog, both
\* `net localgroup` commands were run and exited with code 0.
C8_SuccessMeansMember ==
    ReportsSuccess =>
        /\ \E i \in 1..Len(out) : ExitedWith(out[i], AddToAdmins, 0)
        /\ \E i \in 1..Len(out) : ExitedWith(out[i], AddToRdpUsers, 0)

\* The commands that create the account or change its password.
PasswordCommands == {NetUserAdd, NetUserReset}

\* C9: get_admin_password returns a password only if the one entered is
\* non-empty, at least 4 characters long and equal to the confirmation;
\* after Cancel or closing the dialog, whatever was rejected before, it
\* returns None and create_admin_account runs no `net user Admin <password>`
\* command.
C9_PasswordValidOrNone ==
    /\ ~pw_result.password.none =>
          /\ pw_result.password.value # <<>>
          /\ Len(pw_result.password.value) >= 4
          /\ pw_entered = <<pw_result.password.value, pw_result.password.value>>
    /\ last_op \in {"cancel_dialog", "close_password_dialog"} =>
          /\ pw_result.password = None
          /\ pw_dialog = "none"
          /\ \A i \in 1..Len(out) : IsCmd(out[i]) => out[i].cmd \notin PasswordCommands

\* A submission was rejected, then the dialog was cancelled.
C9_Witness ==
    /\ last_op = "cancel_dialog"
    /\ pw_rejected > 0
    /\ pw_result.cancelled
    /\ pw_result.password = None

\* ============================================================== installers
\* An installer body is run on t = [ev, exc, ret, files, used]: the transcript,
\* the exception propagating ("none", "error" for an Exception, "timeout"
\* for subprocess.TimeoutExpired), whether the function has returned, the
\* downloaded files in the working directory, and the environment outcomes
\* consumed.

RunOutcomes == {"ok", "fail", "raise", "timeout"}

CmdTimedOut(c) == [cmd |-> c, timeout |-> TRUE]     \* subprocess.run raised TimeoutExpired
Popen(c)       == [cmd |-> c, popen |-> TRUE]       \* subprocess.Popen, not waited for
Get(f, ok)     == [get |-> f, ok |-> ok]            \* urllib.request.urlretrieve
Startfile(f, ok) == [startfile |-> f, ok |-> ok]    \* os.startfile
Rm(f, ok)      == [rm |-> f, ok |-> ok]             \* os.remove

T0(fs) == [ev |-> <<>>, exc |-> "none", ret |-> FALSE, files |-> fs, used |-> {}]

Live(t) == t.exc = "none" /\ ~t.ret

ISay(t, level, msg) ==
    IF Live(t) THEN [t EXCEPT !.ev = Append(@, Log(level, msg))] ELSE t

IShow(t, kind, title) ==
    IF Live(t) THEN [t EXCEPT !.ev = Append(@, Dlg(kind, title))] ELSE t

\* subprocess.run(c, ..., timeout=...) with outcome r.
IRun(t, c, r) ==
    IF ~Live(t) THEN t
    ELSE CASE r = "raise"   -> [t EXCEPT !.ev = Append(@, CmdRaised(c)), !.exc = "error"]
           [] r = "timeout" -> [t EXCEPT !.ev = Append(@, CmdTimedOut(c)), !.exc = "timeout"]
           [] r = "ok"      -> [t EXCEPT !.ev = Append(@, Cmd(c, 0))]
           [] OTHER         -> [t EXCEPT !.ev = Append(@, Cmd(c, 1))]

\* urllib.request.urlretrieve(url, f): "ok", "raise" before the file is
\* created, or "partial" (raised after the file was written to).
Fetch(t, f, r) ==
    IF ~Live(t) THEN t
    ELSE CASE r = "ok"      -> [t EXCEPT !.ev = Append(@, Get(f, TRUE)), !.files = @ \cup {f}]
           [] r = "partial" -> [t EXCEPT !.ev = Append(@, Get(f, FALSE)), !.files = @ \cup {f},
                                         !.exc = "error"]
           [] OTHER         -> [t EXCEPT !.ev = Append(@, Get(f, FALSE)), !.exc = "error"]

\* return
Return(t) == IF Live(t) THEN [t EXCEPT !.ret = TRUE] ELSE t

\* The exception is caught by an except clause.
Caught(t) == [t EXCEPT !.exc = "none"]

\* os.startfile(f) in its try / except Exception.
ManualOpen(t, f, r, openedMsg, failedMsg) ==
    IF ~Live(t) THEN t
    ELSE IF r = "ok"
         THEN IShow(ISay([t EXCEPT !.ev = Append(@, Startfile(f, TRUE))], "INFO", openedMsg),
                    "showinfo", "Manual Installation")
         ELSE ISay([t EXCEPT !.ev = Append(@, Startfile(f, FALSE))], "ERROR", failedMsg)

\* except subprocess.TimeoutExpired: warning and "Installation Timeout".
OnTimeoutMut(t, level, msg, kind) ==
    IF ~t.ret
    THEN IShow(ISay(Caught(t), level, msg), kind, "Installation Timeout")
    ELSE t
OnTimeout(t, level, msg, kind) ==
    IF t.exc = "timeout" /\ ~t.ret
    THEN IShow(ISay(Caught(t), level, msg), kind, "Installation Timeout")
    ELSE t

\* except Exception as e: log the error and show it.
OnError(t, level, msg, title) ==
    IF t.exc # "none" /\ ~t.ret
    THEN IShow(ISay(Caught(t), level, msg), "showerror", title)
    ELSE t

\* if os.path.exists(f): try: os.remove(f) ... except Exception: warning
Cleanup(t, f, r, level, doneMsg, warning, failedMsg) ==
    IF ~Live(t) \/ f \notin t.files THEN t
    ELSE IF r = "ok"
         THEN ISay([t EXCEPT !.ev = Append(@, Rm(f, TRUE)), !.files = @ \ {f}], level, doneMsg)
         ELSE ISay([t EXCEPT !.ev = Append(@, Rm(f, FALSE))], warning, failedMsg)

\* The prompt after two failed attempts, and what follows the answer.
ManualPrompt(t, f, manual, open, name) ==
    LET a == IShow(ISay(t, "INFO", "Suggesting manual installation..."),
                   "askyesno", "Installation Failed")
    IN  IF manual
        THEN ManualOpen(a, f, open, name \o " opened for manual installation.",
                        "Failed to open " \o name)
        ELSE IShow(a, "showwarning", "Installation Skipped")

\* ------------------------------------------------- download_and_install_msi
MsiFile   == "PowerEventProviderSetup.msi"
MsiQuiet  == "msiexec /i PowerEventProviderSetup.msi /quiet"
MsiLogged == "msiexec /i PowerEventProviderSetup.msi /l*v msi_install.log"

\* r[1], r[2]: the outcomes of the two msiexec runs; dl of the download;
\* manual the answer to the prompt; open of os.startfile; rm of os.remove.
\* The download overwrites the file, so what was there before is not read.
DownloadAndInstallMsi(dl, r, manual, open, rm) ==
    LET t1 == ISay(ISay(T0({}), "INFO", "Starting MSI download"), "INFO", "Downloading MSI file...")
        t2 == ISay(ISay(Fetch(t1, MsiFile, dl), "SUCCESS", "MSI file downloaded"),
                   "INFO", "Installing MSI file with elevated privileges...")
        t3 == IRun(t2, MsiQuiet, r[1])
        t4 == IF r[1] = "ok"
              THEN IShow(ISay(t3, "SUCCESS", "PowerEventProvider installed successfully!"),
                         "showinfo", "Success")
              ELSE LET a == ISay(ISay(t3, "WARNING", "Silent install failed, trying with logging..."),
                                 "WARNING", "Error details")
                       b == IRun(a, MsiLogged, r[2])
                   IN  IF r[2] = "ok"
                       THEN IShow(ISay(b, "SUCCESS", "PowerEventProvider installed successfully with UI!"),
                                  "showinfo", "Success")
                       ELSE ManualPrompt(ISay(b, "ERROR", "MSI installation failed."),
                                         MsiFile, manual, open, "MSI file")
        t5 == OnTimeout(t4, "WARNING",
                        "MSI installation timed out. The installer may still be running.",
                        "showwarning")
        t6 == Cleanup(t5, MsiFile, rm, "INFO", "Downloaded MSI file cleaned up.",
                      "WARNING", "Warning: Could not clean up MSI file")
    IN  OnError(t6, "ERROR", "Failed to download/install MSI", "Error")

\* ------------------------------------------------- download_and_install_exe
\* The applications create_apps_tab installs with download_and_install_exe.
ExeApps == {"Tailscale", "MuMu", "Ninite"}

\* f"{app_name.lower().replace(' ', '_')}_setup.exe"
SetupFile(app) ==
    CASE app = "Tailscale" -> "tailscale_setup.exe"
      [] app = "MuMu"      -> "mumu_setup.exe"
      [] app = "Ninite"    -> "ninite_setup.exe"

\* The first attempt: the installer itself for Ninite, Start-Process
\* -Verb RunAs -Wait for the others.
ElevatedInstall(app) ==
    IF app = "Ninite" THEN SetupFile(app)
    ELSE "powershell Start-Process -FilePath " \o SetupFile(app) \o " -Verb RunAs -Wait"

\* The MuMu branch: confirmation, Popen, return.
MuMuInstall(t, confirm, r) ==
    LET a == IShow(ISay(t, "INFO", "Starting MuMu installer in background to prevent freezing..."),
                   "askyesno", "Install MuMu")
    IN  IF ~Live(a) THEN a
        ELSE IF ~confirm
        THEN Return(ISay(a, "INFO", "MuMu installation cancelled by user"))
        ELSE IF r = "raise"
        THEN [a EXCEPT !.ev = Append(@, CmdRaised(SetupFile("MuMu"))), !.exc = "error"]
        ELSE Return(IShow(ISay([a EXCEPT !.ev = Append(@, Popen(SetupFile("MuMu")))],
                               "SUCCESS", "MuMu installer launched in background"),
                          "showinfo", "MuMu Installation Started"))

\* confirm is the answer to the MuMu prompt; the other inputs are those of
\* DownloadAndInstallMsi.
DownloadAndInstallExe(app, dl, r, confirm, manual, open, rm) ==
    LET f  == SetupFile(app)
        t1 == ISay(ISay(T0({}), "INFO", "Starting " \o app \o " download"),
                   "INFO", "Downloading " \o app \o " installer...")
        t2 == ISay(ISay(Fetch(t1, f, dl), "SUCCESS", app \o " installer downloaded"),
                   "INFO", "Installing " \o app \o " with elevated privileges...")
        t4 == IF app = "MuMu"
              THEN MuMuInstall(t2, confirm, r[1])
              ELSE LET t3 == IRun(IF app = "Ninite"
                                  THEN ISay(t2, "INFO", "Running Ninite installer directly (no silent mode)...")
                                  ELSE t2,
                                  ElevatedInstall(app), r[1])
                   IN  IF r[1] = "ok"
                       THEN IShow(ISay(t3, "SUCCESS", app \o " installed successfully!"),
                                  "showinfo", "Success")
                       ELSE LET a == ISay(t3, "WARNING", "Elevated install failed, trying normal install...")
                                b == IRun(a, f, r[2])
                            IN  IF r[2] = "ok"
                                THEN IShow(ISay(b, "SUCCESS",
                                                app \o " installed successfully with normal privileges!"),
                                           "showinfo", "Success")
                                ELSE ManualPrompt(ISay(b, "ERROR", app \o " installation failed."),
                                                  f, manual, open, app \o " installer")
        t5 == OnTimeout(t4, "WARNING",
                        app \o " installation timed out. The installer may still be running.",
                        "showwarning")
        t6 == Cleanup(t5, f, rm, "INFO", "Downloaded " \o app \o " installer cleaned up.",
                      "WARNING", "Warning: Could not clean up " \o app \o " installer")
    IN  OnError(t6, "ERROR", "Failed to download/install " \o app, "Error")

\* -------------------------------------------------------- install_ippy_tray
PythonVersion   == "python --version"
WingetInstall   == "winget install Python.Python.3.11 --accept-source-agreements"
Refreshenv      == "refreshenv"
PythonInstaller == "python-installer.exe"
PythonInstallerQuiet == "python-installer.exe /quiet InstallAllUsers=1 PrependPath=1"
SetExecutionPolicy == "powershell Set-ExecutionPolicy -ExecutionPolicy RemoteSigned -Scope CurrentUser -Force"
InstallScript   == "powershell irm install.ps1 | iex"
SetTls          == "powershell [Net.ServicePointManager]::SecurityProtocol = Tls12"
SetCrypto       == "powershell Set-ItemProperty .NETFramework SchUseStrongCrypto"
SetCryptoWow64  == "powershell Set-ItemProperty Wow6432Node .NETFramework SchUseStrongCrypto"

\* The environment's answers are read by step name; a step that runs is
\* recorded in t.used.
Use(t, step) == IF Live(t) THEN [t EXCEPT !.used = @ \cup {step}] ELSE t
RunStep(t, c, r, step)   == IRun(Use(t, step), c, r[step])
FetchStep(t, f, r, step) == Fetch(Use(t, step), f, r[step])

\* Step 1 after a failed probe: winget, then the python.org installer.
PythonInstall(t, r) ==
    LET a == RunStep(ISay(t, "info", "Installing Python using winget..."),
                     WingetInstall, r, "winget")
        b == IF r["winget"] = "ok"
             THEN RunStep(ISay(ISay(a, "success", "Python installed successfully using winget!"),
                               "info", "Refreshing environment variables..."),
                          Refreshenv, r, "refresh1")
             ELSE LET c == ISay(ISay(a, "warning", "winget installation failed. Trying alternative method..."),
                                "info", "Downloading Python from python.org...")
                      d == FetchStep(c, PythonInstaller, r, "download")
                      e == RunStep(ISay(d, "info", "Python installer downloaded. Installing..."),
                                   PythonInstallerQuiet, r, "installer")
                      f == IF r["installer"] = "ok"
                           THEN RunStep(ISay(e, "success", "Python installed successfully!"),
                                        Refreshenv, r, "refresh2")
                           ELSE Return(IShow(ISay(e, "error",
                                                  "Python installation failed. Please install Python manually."),
                                             "showerror", "Python Required"))
                      \* except Exception of the download / installer block
                      g == IF Live(c) /\ f.exc # "none" /\ ~f.ret
                           THEN Return(IShow(ISay(Caught(f), "error", "Failed to download Python"),
                                             "showerror", "Python Required"))
                           ELSE f
                  IN  g
    \* except Exception of the winget block
    IN  IF b.exc # "none" /\ ~b.ret
        THEN ISay(Caught(b), "warning", "winget not available. Trying alternative Python installation...")
        ELSE b

\* Step 1: the probe, and the installation of Python when it exits non-zero.
PythonStep(t, r) ==
    LET t1 == ISay(t, "info", "Checking Python installation...")
        t2 == RunStep(t1, PythonVersion, r, "probe")
    IN  IF r["probe"] = "ok"
        THEN ISay(t2, "success", "Python found")
        ELSE PythonInstall(ISay(t2, "warning", "Python not found. Attempting to install Python..."), r)

\* A step whose exit code only selects the line logged.
SettingStep(t, c, r, step, intro, okMsg, failMsg) ==
    LET a == RunStep(ISay(t, "info", intro), c, r, step)
    IN  ISay(a, IF r[step] = "ok" THEN "success" ELSE "warning",
                IF r[step] = "ok" THEN okMsg ELSE failMsg)

InstalledOk(t) ==
    IShow(ISay(ISay(t, "success", "IP Python Tray App installed successfully!"),
               "info", "Note: A system reboot may be required for the tray app to appear."),
          "showinfo", "Installation Complete")

\* Step 2: the probe again; the handler returns unless it exits with 0.
VerifyStep(t, r) ==
    LET a == RunStep(ISay(t, "info", "Verifying Python installation..."),
                     PythonVersion, r, "verify")
    IN  IF r["verify"] = "ok" THEN a
        ELSE Return(IShow(ISay(a, "error", "Python still not accessible."),
                          "showerror", "Python Not Accessible"))

\* Step 4: the installation script; the handler returns when it exits with 0.
FirstInstallStep(t, r) ==
    LET a == RunStep(ISay(t, "info", "Executing IP Python Tray App installation..."),
                     InstallScript, r, "install")
    IN  IF r["install"] = "ok" THEN Return(InstalledOk(a))
        ELSE ISay(a, "warning", "First command failed")

\* Step 8: the installation script once more.
FinalInstallStep(t, r) ==
    LET a == RunStep(ISay(t, "info", "Executing final installation command..."),
                     InstallScript, r, "final")
    IN  IF r["final"] = "ok" THEN InstalledOk(a)
        ELSE IShow(ISay(ISay(a, "error", "Final installation failed"),
                        "error", "All installation methods failed. Please try installing manually."),
                   "showerror", "Installation Failed")

\* Steps 2 to 8, each run only while no exception propagates and the
\* handler has not returned.
TrayInstallSteps(t, r) ==
    LET t2 == VerifyStep(t, r) IN
    IF ~Live(t2) THEN t2 ELSE
    LET t3 == SettingStep(t2, SetExecutionPolicy, r, "policy",
                          "Setting PowerShell execution policy...",
                          "Execution policy set successfully.",
                          "Warning: Could not set execution policy.") IN
    IF ~Live(t3) THEN t3 ELSE
    LET t4 == FirstInstallStep(t3, r) IN
    IF ~Live(t4) THEN t4 ELSE
    LET t5 == SettingStep(t4, SetTls, r, "tls", "Setting TLS security protocol...",
                          "TLS protocol set successfully.",
                          "Warning: Could not set TLS protocol.") IN
    IF ~Live(t5) THEN t5 ELSE
    LET t6 == SettingStep(t5, SetCrypto, r, "crypto",
                          "Setting .NET Framework crypto settings...",
                          ".NET Framework crypto settings updated.",
                          "Warning: Could not update .NET Framework crypto settings.") IN
    IF ~Live(t6) THEN t6 ELSE
    LET t7 == SettingStep(t6, SetCryptoWow64, r, "wow64",
                          "Setting WOW64 .NET Framework crypto settings...",
                          "WOW64 .NET Framework crypto settings updated.",
                          "Warning: Could not update WOW64 .NET Framework crypto settings.") IN
    IF ~Live(t7) THEN t7 ELSE FinalInstallStep(t7, r)

\* The whole handler; stale tells whether an earlier call left
\* python-installer.exe behind, rm is the outcome of os.remove in the final
\* clean-up, which a return inside the try block skips.
InstallIppyTray(stale, r, rm) ==
    LET t1 == ISay(T0(IF stale THEN {PythonInstaller} ELSE {}), "info", "Starting IP Python Tray App installation...")
        p  == PythonStep(t1, r)
        t2 == IF Live(p) THEN TrayInstallSteps(p, r) ELSE p
        t3 == OnTimeout(t2, "error", "Installation timed out. Please try again.", "showerror")
        t4 == OnError(t3, "error", "Installation error", "Installation Error")
    IN  Cleanup(t4, PythonInstaller, rm, "info", "Cleaned up: python-installer.exe",
                "warning", "Warning: Could not clean up python-installer.exe")

\* ------------------------------------------------------- installer actions
HeadSteps == {"probe", "winget", "refresh1", "download", "installer", "refresh2"}
TailSteps == {"verify", "policy", "install", "tls", "crypto", "wow64", "final"}

\* What a step can answer: refreshenv's exit code is never read, and the
\* download has no exit code.
Allowed(step) ==
    CASE step \in {"refresh1", "refresh2"} -> {"ok", "timeout"}
      [] step = "download"                 -> {"ok", "raise", "partial"}
      [] OTHER                             -> RunOutcomes

\* The answer of a step that does not run is never read: it is fixed to "ok".
Canonical(r, used) == \A step \in DOMAIN r \ used : r[step] = "ok"

Heads ==
    {h \in [HeadSteps -> RunOutcomes \cup {"partial"}] :
        /\ \A step \in HeadSteps : h[step] \in Allowed(step)
        /\ Canonical(h, PythonStep(T0({}), h).used)}
Tails ==
    {t \in [TailSteps -> RunOutcomes] : Canonical(t, TrayInstallSteps(T0({}), t).used)}
OkTail == [step \in TailSteps |-> "ok"]

\* The install buttons of create_apps_tab: each lambda binds its handler
\* and, for download_and_install_exe, the application.
InstallButtons == {"install_ippy_tray", "download_and_install_msi"} \cup ExeApps

\* An install handler that ran to its end with builder state t.
Installer(name, t) ==
    /\ clicked' = "none"
    /\ out' = t.ev
    /\ last_op' = name
    /\ UNCHANGED <<is_admin, terminal, terminal_state, log_file, log_calls>>
    /\ UNCHANGED powerVars
    /\ UNCHANGED pwVars
    /\ UNCHANGED statusVars

download_and_install_msi ==
    /\ clicked = "download_and_install_msi"
    /\ \E dl \in Allowed("download"), r \in [1..2 -> RunOutcomes],
          manual \in BOOLEAN, open \in {"ok", "raise"}, rm \in {"ok", "raise"} :
         Installer("download_and_install_msi",
                   DownloadAndInstallMsi(dl, r, manual, open, rm))

download_and_install_exe ==
    /\ clicked \in ExeApps
    /\ \E dl \in Allowed("download"), r \in [1..2 -> RunOutcomes], confirm \in BOOLEAN,
          manual \in BOOLEAN, open \in {"ok", "raise"}, rm \in {"ok", "raise"} :
         /\ clicked = "MuMu" => r[1] \in {"ok", "raise"}     \* Popen does not wait
         /\ Installer("download_and_install_exe",
                      DownloadAndInstallExe(clicked, dl, r, confirm, manual, open, rm))

install_ippy_tray ==
    /\ clicked = "install_ippy_tray"
    /\ \E h \in Heads, stale \in BOOLEAN, rm \in {"ok", "raise"} :
         \E t \in IF Live(PythonStep(T0({}), h)) THEN Tails ELSE {OkTail} :
            Installer("install_ippy_tray", InstallIppyTray(stale, h @@ t, rm))

NextInstall ==
    \/ \E name \in InstallButtons : Click(name)
    \/ download_and_install_msi
    \/ download_and_install_exe
    \/ install_ippy_tray

SpecInstall == Init /\ [][NextInstall]_vars

\* --------------------------------------------- properties of the installers

IsRemoved(e) == "rm" \in DOMAIN e /\ e.ok
ExitedZero(e) == IsCmd(e) /\ "rc" \in DOMAIN e /\ e.rc = 0

\* C7: download_and_install_msi and download_and_install_exe delete the
\* downloaded file only after an install attempt of the call exited with
\* code 0; after two failed attempts, a manual open or a timeout the file
\* stays.
C7_CleanupOnlyAfterSuccess ==
    last_op \in {"download_and_install_msi", "download_and_install_exe"} =>
        \A i \in 1..Len(out) :
            IsRemoved(out[i]) => \E j \in 1..i : ExitedZero(out[j])

\* The first command of the call is the `python --version` probe and it
\* exited non-zero or could not be started.
PythonMissingAtStart ==
    /\ last_op = "install_ippy_tray"
    /\ Cmds(out) # <<>>
    /\ Cmds(out)[1] \in {Cmd(PythonVersion, 1), CmdRaised(PythonVersion)}

\* C10: when Python is not available at the start of install_ippy_tray,
\* winget is run to install it, and unless winget exits with 0 the
\* python.org installer is downloaded, before the handler gives up.
C10_PythonFallbacks ==
    PythonMissingAtStart =>
        /\ \E i \in 1..Len(out) : IsCmd(out[i]) /\ out[i].cmd = WingetInstall
        /\ (\E i \in 1..Len(out) : out[i] = Cmd(WingetInstall, 0))
           \/ (\E i \in 1..Len(out) : "get" \in DOMAIN out[i] /\ out[i].get = PythonInstaller)

\* ------------------------------------------------- installation status
\* check_app_installed probes the machine: os.path.exists on fixed paths, the
\* Uninstall registry key, glob, `sc query`, slmgr and PowerShell.  An
\* environment e records which paths exist (e.exists) and how each probe of
\* the branch ends (e.probe).  os.path.exists answers False for anything it
\* cannot stat; it does not raise.
Exists(e, path) == path \in e.exists
AnyExists(e, locations) == \E loc \in locations : Exists(e, loc)

zip_locations ==
    { "C:\\Program Files\\7-Zip\\7z.exe",
      "C:\\Program Files (x86)\\7-Zip\\7z.exe" }
chrome_locations ==
    { "C:\\Program Files\\Google\\Chrome\\Application\\chrome.exe",
      "C:\\Program Files (x86)\\Google\\Chrome\\Application\\chrome.exe",
      "~\\AppData\\Local\\Google\\Chrome\\Application\\chrome.exe" }
firefox_locations ==
    { "C:\\Program Files\\Mozilla Firefox\\firefox.exe",
      "C:\\Program Files (x86)\\Mozilla Firefox\\firefox.exe" }
notepad_locations ==
    { "C:\\Program Files\\Notepad++\\notepad++.exe",
      "C:\\Program Files (x86)\\Notepad++\\notepad++.exe" }
total_apps == 4

\* `if any(os.path.exists(loc) for loc in locations): apps_installed += 1`
Detected(e, locations) == IF AnyExists(e, locations) THEN 1 ELSE 0

\* check_ninite_apps: the value returned and the two attributes it stores.
CheckNiniteAppsMut(e) ==
    LET apps_installed == Detected(e, zip_locations) + Detected(e, chrome_locations)
                          + Detected(e, firefox_locations)
    IN  [ value        |-> apps_installed = total_apps - 1,
          ninite_count |-> apps_installed,
          ninite_total |-> total_apps ]
CheckNiniteApps(e) ==
    LET apps_installed == Detected(e, zip_locations) + Detected(e, chrome_locations)
                          + Detected(e, firefox_locations)
                          + Detected(e, notepad_locations)
    IN  [ value        |-> apps_installed = total_apps,
          ninite_count |-> apps_installed,
          ninite_total |-> total_apps ]

\* What a call does: return a value or raise, and the ninite_* attributes it
\* leaves behind (attrs = <<ninite_count, ninite_total>>).
Returns(v, attrs) == [raised |-> FALSE, value |-> v, attrs |-> attrs]
Raises(attrs)     == [raised |-> TRUE, value |-> FALSE, attrs |-> attrs]

PyAutoClickerDir == "~\\AppData\\Local\\PyAutoClicker"
installation_paths ==
    { "C:\\Program Files (x86)\\PowerEventProvider",
      "C:\\Program Files\\PowerEventProvider",
      "C:\\PowerEventProvider" }
primary_location == "C:\\Tools\\TrayApp\\main.py"
fallback_locations ==
    { "C:\\Tools\\ippy-tray-app",
      "C:\\Tools\\ippy-tray-app\\main.py",
      "C:\\Tools\\ippy_tray_app.py",
      "C:\\Tools\\ip_tray_app.py",
      "C:\\Tools\\TrayApp",
      "~\\AppData\\Local\\ippy-tray-app",
      "~\\AppData\\Roaming\\ippy-tray-app" }
tailscale_locations ==
    { "C:\\Program Files\\Tailscale\\tailscale.exe",
      "C:\\Program Files (x86)\\Tailscale\\tailscale.exe",
      "~\\AppData\\Local\\Tailscale\\tailscale.exe",
      "C:\\ProgramData\\Tailscale\\tailscale.exe" }
mumu_locations ==
    { "C:\\Program Files\\Netease\\MuMu Player 12",
      "C:\\Program Files (x86)\\Netease\\MuMu Player 12",
      "C:\\Program Files\\MuMu Player 12",
      "C:\\Program Files (x86)\\MuMu Player 12",
      "~\\AppData\\Local\\MuMu Player 12",
      "C:\\MuMu Player 12" }
exe_locations ==
    { "C:\\Program Files\\Netease\\MuMu Player 12\\shell\\MuMuPlayer.exe",
      "C:\\Program Files (x86)\\Netease\\MuMu Player 12\\shell\\MuMuPlayer.exe" }

\* PowerEventProvider: an installation directory, else the service;
\* `except: pass` around `sc query` falls through to `return False`.
CheckPowerEventProvider(e) ==
    IF AnyExists(e, installation_paths) THEN TRUE
    ELSE IF e.probe.sc = "raise" THEN FALSE
    ELSE e.probe.sc \in {"RUNNING", "STOPPED"}

\* IP Python Tray App: the primary location, then the two globs inside one
\* try block (an exception in either is passed over), then the fallbacks.
CheckTrayApp(e) ==
    IF Exists(e, primary_location) THEN TRUE
    ELSE IF e.probe.glob_py = "match" THEN TRUE
    ELSE IF e.probe.glob_py = "empty" /\ e.probe.glob_dir = "match" THEN TRUE
    ELSE AnyExists(e, fallback_locations)

\* The scan of HKLM\...\Uninstall for a DisplayName: "found" returns True from
\* inside the loop, "raise" is passed over, and both other outcomes go on to
\* the path checks.
CheckByRegistryThenPaths(e, locations) ==
    IF e.probe.registry = "found" THEN TRUE
    ELSE AnyExists(e, locations)

\* MASS: inside its own `try ... except Exception: return False`.
\* Method 1 slmgr /dli, method 2 PowerShell, method 3 DigitalProductId
\* (`len(digital_id) > 0`; an exception there is passed over).
CheckActivation(e, attrs) ==
    IF e.probe.slmgr = "raise" THEN Raises(attrs)
    ELSE IF e.probe.slmgr = "licensed" THEN Returns(TRUE, attrs)
    ELSE IF e.probe.powershell = "raise" THEN Raises(attrs)
    ELSE IF e.probe.powershell = "true" THEN Returns(TRUE, attrs)
    ELSE IF e.probe.registry = "id" THEN Returns(TRUE, attrs)
    ELSE Returns(FALSE, attrs)

\* `try: <body> except: return False`
ExceptReturnFalseMut(r) == r
ExceptReturnFalse(r) == IF r.raised THEN Returns(FALSE, r.attrs) ELSE r

\* The if / elif chain of check_app_installed, before its outer handler.
CheckAppBranches(app_name, e, attrs) ==
    CASE app_name = "PyAutoClicker"      -> Returns(Exists(e, PyAutoClickerDir), attrs)
      [] app_name = "PowerEventProvider" -> Returns(CheckPowerEventProvider(e), attrs)
      [] app_name = "IP Python Tray App" -> Returns(CheckTrayApp(e), attrs)
      [] app_name = "Tailscale" ->
            Returns(CheckByRegistryThenPaths(e, tailscale_locations), attrs)
      [] app_name = "MuMu" ->
            Returns(CheckByRegistryThenPaths(e, mumu_locations \cup exe_locations), attrs)
      [] app_name = "MASS"               -> ExceptReturnFalse(CheckActivation(e, attrs))
      [] app_name = "Ninite Installer" ->
            LET n == CheckNiniteApps(e)
            IN  Returns(n.value, <<n.ninite_count, n.ninite_total>>)
      [] OTHER                           -> Returns(FALSE, attrs)

CheckAppInstalled(app_name, e, attrs) ==
    ExceptReturnFalse(CheckAppBranches(app_name, e, attrs))

\* getattr(self, name, default)
Getattr(attr, default) == IF attr = NoAttr THEN default ELSE attr

\* The label texts, without their leading glyph; the Ninite text carries
\* "(count/total)".
NiniteText(all_installed, count, total) ==
    <<IF all_installed THEN "All Apps Installed" ELSE "Apps Installed", count, total>>
AppText(installed) == <<IF installed THEN "Installed" ELSE "Not Installed">>
ActivationText(is_activated) ==
    <<IF is_activated THEN "Windows Activated" ELSE "Windows Not Activated">>

\* ---- the environments a check can meet
AppTitles ==
    { "PyAutoClicker", "IP Python Tray App", "PowerEventProvider", "CTT WinUtil",
      "MASS", "Tailscale", "MuMu", "Ninite Installer" }
KnownNames == AppTitles \ {"CTT WinUtil"}
NinitePaths ==
    zip_locations \cup chrome_locations \cup firefox_locations \cup notepad_locations

PathsOf(app_name) ==
    CASE app_name = "PyAutoClicker"      -> {PyAutoClickerDir}
      [] app_name = "PowerEventProvider" -> installation_paths
      [] app_name = "IP Python Tray App" -> {primary_location} \cup fallback_locations
      [] app_name = "Tailscale"          -> tailscale_locations
      [] app_name = "MuMu"               -> mumu_locations \cup exe_locations
      [] app_name = "Ninite Installer"   -> NinitePaths
      [] OTHER                           -> {}

GlobOutcomes == {"match", "empty", "raise"}
RegistryOutcomes == {"found", "absent", "raise"}
ProbesOf(app_name) ==
    CASE app_name = "PowerEventProvider" -> [sc : {"RUNNING", "STOPPED", "other", "raise"}]
      [] app_name = "IP Python Tray App" -> [glob_py : GlobOutcomes, glob_dir : GlobOutcomes]
      [] app_name \in {"Tailscale", "MuMu"} -> [registry : RegistryOutcomes]
      [] app_name = "MASS" ->
            [ slmgr      : {"licensed", "unlicensed", "fail", "raise"},
              powershell : {"true", "false", "fail", "raise"},
              registry   : {"id", "empty", "raise"} ]
      [] OTHER -> {<<>>}

\* A file exists only inside an existing directory, and a glob that ends
\* normally lists the existing names its pattern matches.
Consistent(app_name, e) ==
    CASE app_name = "IP Python Tray App" ->
            /\ Exists(e, primary_location) => Exists(e, "C:\\Tools\\TrayApp")
            /\ Exists(e, "C:\\Tools\\ippy-tray-app\\main.py")
                    => Exists(e, "C:\\Tools\\ippy-tray-app")
            /\ AnyExists(e, {"C:\\Tools\\ippy_tray_app.py", "C:\\Tools\\ip_tray_app.py"})
                    => e.probe.glob_py # "empty"
            /\ Exists(e, "C:\\Tools\\TrayApp") => e.probe.glob_dir # "empty"
      [] app_name = "MuMu" ->
            /\ Exists(e, "C:\\Program Files\\Netease\\MuMu Player 12\\shell\\MuMuPlayer.exe")
                    => Exists(e, "C:\\Program Files\\Netease\\MuMu Player 12")
            /\ Exists(e, "C:\\Program Files (x86)\\Netease\\MuMu Player 12\\shell\\MuMuPlayer.exe")
                    => Exists(e, "C:\\Program Files (x86)\\Netease\\MuMu Player 12")
      [] OTHER -> TRUE

Envs(app_name) ==
    { e \in [exists : SUBSET PathsOf(app_name), probe : ProbesOf(app_name)] :
        Consistent(app_name, e) }

\* ---- the callbacks
\* create_app_section makes the status label with its "Checking" text and
\* hands the callback to root.after(50 | 100 | 200, ...); the label is alive
\* as long as the main window is.
CheckingText(callback) ==
    CASE callback = "check_mass_activation_async" -> <<"Checking activation...">>
      [] callback = "check_ninite_async"          -> <<"Checking apps...">>
      [] OTHER                                    -> <<"Checking...">>

after(callback, title) ==
    /\ checking = <<>>
    /\ clicked = "none"
    /\ checking' = <<callback, title>>
    /\ status_label' = <<title>> \o CheckingText(callback)
    /\ env' = NoEnv
    /\ is_installed' = NoRet
    /\ last_op' = "after"
    /\ UNCHANGED <<ninite_count, ninite_total>>
    /\ UNCHANGED <<is_admin, terminal, terminal_state, log_file, log_calls>>
    /\ UNCHANGED <<powerVars, pwVars, clicked, out>>

\* What every status callback does around check_app_installed.
Checked(name, e, r, text) ==
    /\ checking' = <<>>
    /\ env' = e
    /\ is_installed' = [raised |-> r.raised, value |-> r.value]
    /\ ninite_count' = r.attrs[1]
    /\ ninite_total' = r.attrs[2]
    /\ status_label' = text
    /\ last_op' = name
    /\ UNCHANGED <<is_admin, terminal, terminal_state, log_file, log_calls>>
    /\ UNCHANGED <<powerVars, pwVars, clicked, out>>

\* create_app_section schedules check_app_async for the titles with a plain
\* status label; it is applied to every title here, so that each branch of
\* check_app_installed, the final `else` included ("CTT WinUtil"), is run.
check_app_async(app_name) ==
    /\ checking = <<"check_app_async", app_name>>
    /\ \E e \in Envs(app_name) :
         LET r == CheckAppInstalled(app_name, e, <<ninite_count, ninite_total>>)
         IN  Checked("check_app_async", e, r,
                     <<app_name>> \o
                        (IF r.raised THEN AppText(FALSE) ELSE AppText(r.value)))

check_mass_activation_async ==
    /\ checking = <<"check_mass_activation_async", "MASS">>
    /\ \E e \in Envs("MASS") :
         LET r == CheckAppInstalled("MASS", e, <<ninite_count, ninite_total>>)
         IN  Checked("check_mass_activation_async", e, r,
                     <<"MASS">> \o
                        (IF r.raised THEN ActivationText(FALSE)
                         ELSE ActivationText(r.value)))

check_ninite_async ==
    /\ checking = <<"check_ninite_async", "Ninite Installer">>
    /\ \E e \in Envs("Ninite Installer") :
         LET r == CheckAppInstalled("Ninite Installer", e, <<ninite_count, ninite_total>>)
             count == Getattr(r.attrs[1], 0)
             total == Getattr(r.attrs[2], 4)
         IN  Checked("check_ninite_async", e, r,
                     <<"Ninite Installer">> \o
                        (IF r.raised THEN NiniteText(FALSE, 0, 4)
                         ELSE NiniteText(r.value, count, total)))

NextStatus ==
    \/ \E title \in AppTitles : after("check_app_async", title)
    \/ after("check_mass_activation_async", "MASS")
    \/ after("check_ninite_async", "Ninite Installer")
    \/ \E app_name \in AppTitles : check_app_async(app_name)
    \/ check_mass_activation_async
    \/ check_ninite_async

SpecStatus == Init /\ [][NextStatus]_vars

\* ------------------------------------------------- claims on the status checks
NiniteGroups == {zip_locations, chrome_locations, firefox_locations, notepad_locations}
DetectedGroups == {g \in NiniteGroups : g \cap env.exists # {}}

\* C11: check_ninite_apps answers True exactly when each of 7-Zip, Chrome,
\* Firefox and Notepad++ has at least one of its listed paths present; after
\* the call ninite_total is 4 and ninite_count is the number of the four that
\* were detected, and the label written by check_ninite_async reads
\* "All Apps Installed (count/total)" exactly when count = total, and
\* "Apps Installed (count/total)" otherwise.
C11_AllFourOrNotAll ==
    last_op = "check_ninite_async" =>
        /\ ~is_installed.raised
        /\ is_installed.value = (DetectedGroups = NiniteGroups)
        /\ ninite_total = 4
        /\ ninite_count = Cardinality(DetectedGroups)
        /\ status_label =
              << "Ninite Installer",
                 IF ninite_count = ninite_total THEN "All Apps Installed"
                                                ELSE "Apps Installed",
                 ninite_count, ninite_total >>

\* All four detected, two of them through their second listed path.
C11_Witness ==
    /\ last_op = "check_ninite_async"
    /\ env.exists = { "C:\\Program Files (x86)\\7-Zip\\7z.exe",
                      "C:\\Program Files\\Google\\Chrome\\Application\\chrome.exe",
                      "C:\\Program Files\\Mozilla Firefox\\firefox.exe",
                      "C:\\Program Files (x86)\\Notepad++\\notepad++.exe" }
    /\ is_installed.value
    /\ status_label = <<"Ninite Installer", "All Apps Installed", 4, 4>>

\* ------------------------------------------------- claims on the policy steps
\* The events of the transcript that satisfy a test.
Where(Test(_)) == {i \in 1..Len(out) : Test(out[i])}
Shows(kind, title) == \E i \in 1..Len(out) : out[i] = Dlg(kind, title)

\* Step i of the six `reg add` steps was started / exited with code 0.
HideTried(i) == \E k \in 1..Len(out) : IsCmd(out[k]) /\ out[k].cmd = "reg add " \o PolicyValues[i]
HideOk(i)    == \E k \in 1..Len(out) : out[k] = Cmd("reg add " \o PolicyValues[i], 0)
HideCounted  == LET Counts(e) == e = Log("success", "Successfully set policy")
                IN  Cardinality(Where(Counts))

\* C12: run as administrator, remove_shutdown_from_startup_smart starts each
\* of its six `reg add` steps whatever the earlier steps did (non-zero exit
\* or exception), success_count is the number of steps that exited with 0
\* (so within 0..6), and it shows the "Success" dialog exactly when at least
\* three of the six exited with 0 and the "Failed" warning otherwise.
C12_SixStepsThreeToSucceed ==
    (is_admin /\ last_op = "remove_shutdown_from_startup_smart") =>
        LET ok == {i \in 1..TotalMethods : HideOk(i)} IN
        /\ \A i \in 1..TotalMethods : HideTried(i)
        /\ HideCounted = Cardinality(ok)
        /\ HideCounted \in 0..6
        /\ Shows("showinfo", "Success") <=> Cardinality(ok) >= 3
        /\ Shows("showwarning", "Failed") <=> Cardinality(ok) < 3

\* The first step raises, the second exits non-zero, and exactly three of the
\* remaining four succeed.
C12_Witness ==
    /\ is_admin /\ last_op = "remove_shutdown_from_startup_smart"
    /\ out[2] = CmdRaised("reg add " \o PolicyValues[1])
    /\ \E k \in 1..Len(out) : out[k] = Cmd("reg add " \o PolicyValues[2], 1)
    /\ Cardinality({i \in 1..TotalMethods : HideOk(i)}) = 3
    /\ Shows("showinfo", "Success")

\* Policy value i is absent after its `reg delete` step: the command deleted
\* it (exit code 0) or found nothing to delete.
ValueAbsent(i) ==
    \E k \in 1..Len(out) :
        /\ IsCmd(out[k]) /\ out[k].cmd = "reg delete " \o PolicyValues[i]
        /\ "rc" \in DOMAIN out[k]
        /\ out[k].rc = 0 \/ ("stderr" \in DOMAIN out[k] /\ out[k].stderr = "absent")

\* C13: restore_shutdown_options counts a removal step only when `reg delete`
\* exited with 0 or the value was already absent, so it never reports success
\* when fewer than three of the six policy values are actually absent.
C13_SuccessMeansThreeAbsent ==
    (is_admin /\ last_op = "restore_shutdown_options" /\ Shows("showinfo", "Success")) =>
        Cardinality({i \in 1..TotalMethods : ValueAbsent(i)}) >= 3

\* ------------------------------------------------- claims on the countdowns
\* The command the countdown window of kind `kind` was confirmed for.
FlagOf(kind) == IF kind = "restart" THEN "/r" ELSE "/s"

\* C14: the `shutdown` command issued at the end of a countdown is the one
\* of the confirmation made last, i.e. of the countdown window that is
\* current when it is issued; in particular, after a Restart countdown is
\* cancelled and Shutdown is confirmed while the countdown_restart callback
\* of the cancelled countdown is still pending, no `shutdown /r` is issued.
C14_IssuedIsLastConfirmed ==
    \A i \in 1..Len(issued) :
        issued[i].cmd = FlagOf(windows[issued[i].window].kind)

\* C15: at most one countdown callback is pending on the Tk timer queue at
\* any time, so that countdown_seconds goes down once per timer period and a
\* confirmed restart is never issued before 15 periods have passed, also
\* when a countdown is cancelled and a new one is confirmed before the
\* pending callback of the cancelled one has fired.
C15_OneCallbackPending ==
    /\ Len(timers) <= 1
    /\ \A i \in 1..Len(issued) :
           issued[i].cmd = "/r" => issued[i].elapsed >= CountdownStart

\* ------------------------------------------------- claims on the installers
\* The install attempts of the click: the msiexec runs of
\* download_and_install_msi, the installer runs of download_and_install_exe.
Attempts == SelectSeq(out, IsCmd)
NonZero(e) == "rc" \in DOMAIN e /\ e.rc # 0
SuccessDialogs == LET IsSuccess(e) == e = Dlg("showinfo", "Success") IN Cardinality(Where(IsSuccess))

\* The click on the MuMu button, which takes the Popen branch.
MuMuClicked == out # <<>> /\ out[1] = Log("INFO", "Starting MuMu download")

\* C16: download_and_install_msi and download_and_install_exe (other than
\* for MuMu) make at most two install attempts per click; the second runs
\* only if the first returned a non-zero exit code; the manual-installation
\* prompt is shown only if both returned non-zero; the "Success" dialog is
\* shown at most once and never together with the manual prompt or the
\* "Installation Timeout" warning.
C16_TwoAttemptsThenPrompt ==
    ( /\ last_op \in {"download_and_install_msi", "download_and_install_exe"}
      /\ ~MuMuClicked ) =>
        /\ Len(Attempts) <= 2
        /\ Len(Attempts) = 2 => NonZero(Attempts[1])
        /\ Shows("askyesno", "Installation Failed") =>
              Len(Attempts) = 2 /\ NonZero(Attempts[1]) /\ NonZero(Attempts[2])
        /\ SuccessDialogs <= 1
        /\ Shows("showinfo", "Success") =>
              /\ ~Shows("askyesno", "Installation Failed")
              /\ ~Shows("showwarning", "Installation Timeout")

\* Tailscale: the elevated attempt exits non-zero, the plain one succeeds.
C16_Witness ==
    /\ last_op = "download_and_install_exe"
    /\ Attempts = <<Cmd(ElevatedInstall("Tailscale"), 1), Cmd(SetupFile("Tailscale"), 0)>>
    /\ SuccessDialogs = 1
    /\ ~Shows("askyesno", "Installation Failed")

\* ------------------------------------------------- claims on the tweaks
\* The registry and firewall commands of restore_user_creation,
\* disable_remote_desktop and enable_remote_desktop.
RegistryAndFirewall ==
    { "reg delete NoNewUsers",
      "reg add fDenyTSConnections 1", "netsh firewall Remote Desktop enable=no",
      "reg add fDenyTSConnections 0", "netsh firewall Remote Desktop enable=yes",
      "reg add UserAuthentication 0" }

\* C17: restore_user_creation, disable_remote_desktop and
\* enable_remote_desktop show their "Success" dialog ("has been restored",
\* "has been disabled", "has been enabled") only when every registry and
\* firewall command they ran exited with code 0; a non-zero exit of
\* `reg delete`, `reg add` or `netsh` leads to a failure or partial-success
\* message instead.
C17_SuccessMeansEveryCommandZero ==
    ( /\ last_op \in {"restore_user_creation", "disable_remote_desktop",
                      "enable_remote_desktop"}
      /\ Shows("showinfo", "Success") ) =>
        \A k \in 1..Len(out) :
            (IsCmd(out[k]) /\ out[k].cmd \in RegistryAndFirewall) => out[k] = Cmd(out[k].cmd, 0)

\* ------------------------------------------------- claims on check_app_installed
\* The name check_app_async was called with.
CheckedName == status_label[1]

\* A probe that the branch of CheckedName ran has raised an exception: the
\* probes run in order, and a branch that returns True stops before the
\* later ones.
ProbeRaised ==
    LET q == env.probe IN
    CASE CheckedName = "PowerEventProvider" ->
            ~AnyExists(env, installation_paths) /\ q.sc = "raise"
      [] CheckedName = "IP Python Tray App" ->
            /\ ~Exists(env, primary_location)
            /\ q.glob_py = "raise" \/ (q.glob_py = "empty" /\ q.glob_dir = "raise")
      [] CheckedName \in {"Tailscale", "MuMu"} -> q.registry = "raise"
      [] CheckedName = "MASS" ->
            \/ q.slmgr = "raise"
            \/ q.slmgr # "licensed" /\ q.powershell = "raise"
            \/ q.slmgr # "licensed" /\ q.powershell \notin {"true", "raise"}
                                    /\ q.registry = "raise"
      [] OTHER -> FALSE

\* The paths a branch still checks after its registry or glob probe.
PathsAfterProbe ==
    CASE CheckedName = "IP Python Tray App" -> fallback_locations
      [] CheckedName = "Tailscale"          -> tailscale_locations
      [] CheckedName = "MuMu"               -> mumu_locations \cup exe_locations
      [] OTHER                              -> {}

\* The label check_app_async writes for the value check_app_installed returned.
LabelFollowsResult ==
    status_label = <<CheckedName, IF is_installed.value THEN "Installed" ELSE "Not Installed">>

====
